---- MODULE Spec2Model ----
(***************************************************************************)
(* Model of the two click handlers of the email classifier frontend:       *)
(*   - the sendButton handler of src/frontend/script.js                    *)
(*   - the submitBtn handler of src/unnamed/part_000                       *)
(* A page carries one of the two scripts.  Every click starts a new        *)
(* invocation of the async handler; an invocation runs synchronously up to *)
(* its next await and is resumed when the awaited promise settles.         *)
(* Strings the code inspects character by character (the text field) are   *)
(* sequences of one-character strings.                                     *)
(***************************************************************************)
EXTENDS Naturals, Sequences, FiniteSets

\* Number of clicks a behaviour of the model contains.
MaxClicks == 2

----------------------------------------------------------------------------
\* The environment: pages, hostnames, user input, server answers.

Pages == {"script.js", "part_000"}

Hostnames == {"127.0.0.1", "localhost", "localhost.onrender.com"}

WhiteSpace == {" ", "\n"}

Texts == {<<>>, <<" ">>, <<" ", "a", "\n">>}

NoFile == "undefined"

Files == {"mail.txt"}

Statuses == {200, 500}

InvalidJSON == [kind |-> "invalid"]

NullJSON == [kind |-> "null"]

ResultWithPre ==
    [kind |-> "object",
     fields |-> [category |-> "Produtivo", suggested_response |-> "Obrigado",
                 preprocessed |-> "texto limpo"]]

ResultNoPre ==
    [kind |-> "object",
     fields |-> [category |-> "Improdutivo", suggested_response |-> "Sem acao"]]

ErrorWithMessage == [kind |-> "object", fields |-> [error |-> "Nenhum texto"]]

ErrorNoMessage == [kind |-> "object", fields |-> [detail |-> "x"]]

ResultBodies == {InvalidJSON, NullJSON, ResultWithPre, ResultNoPre}

ErrorBodies == {InvalidJSON, ErrorWithMessage, ErrorNoMessage}

----------------------------------------------------------------------------
VARIABLES
    page,          \* which of the two scripts the page runs
    hostname,      \* window.location.hostname
    BACKEND_URL,   \* part_000's module variable, set when the script loads
    emailText,     \* value of the 'emailText' input
    emailFile,     \* files[0] of the 'emailFile' input
    category,      \* innerText of the 'category' element
    response,      \* innerText of the 'response' element
    preprocessed,  \* innerText of the 'preprocessed' element
    pc,            \* position of every handler invocation
    clicks,        \* number of clicks made so far
    inflight,      \* requests handed to fetch whose promise has not settled
    sent,          \* number of fetch calls made so far
    alerts,        \* the alert dialogs shown, in order
    console,       \* the console output, in order
    delivered      \* bodies read from OK responses, in order of arrival

vars == <<page, hostname, BACKEND_URL, emailText, emailFile, category, response,
          preprocessed, pc, clicks, inflight, sent, alerts, console, delivered>>

display == <<category, response, preprocessed>>

Invocations == 1..MaxClicks

----------------------------------------------------------------------------
\* Pure helpers.

RECURSIVE TrimStart(_)
TrimStart(s) ==
    IF s # <<>> /\ Head(s) \in WhiteSpace THEN TrimStart(Tail(s)) ELSE s

RECURSIVE TrimEnd(_)
TrimEnd(s) ==
    IF s # <<>> /\ s[Len(s)] \in WhiteSpace
    THEN TrimEnd(SubSeq(s, 1, Len(s) - 1))
    ELSE s

\* String.prototype.trim
Trim(s) == TrimEnd(TrimStart(s))

IsLocalOnlyLocalhost(h) == h = "localhost"

\* the hostname test both scripts make
IsLocal(h) == h = "127.0.0.1" \/ h = "localhost"

\* script.js: the URL computed on every click
backendURL(h) ==
    IF IsLocal(h)
    THEN "http://127.0.0.1:5000/process"
    ELSE "https://email-classificacao.onrender.com/process"

\* part_000: the base URL computed once, at load
LoadBackendURL(h) ==
    IF IsLocal(h)
    THEN "http://127.0.0.1:5000"
    ELSE "https://classificador-de-email.onrender.com"

\* Response.ok
Ok(status) == status >= 200 /\ status <= 299

sendButtonTextUntrimmed(value) == value

\* script.js: const text = ....value.trim()
sendButtonText(value) == Trim(value)

\* script.js: the fetch call's arguments
sendButtonRequest(text, h) ==
    [url |-> backendURL(h), method |-> "POST", contentType |-> "application/json",
     credentials |-> "include", body |-> [json |-> [text |-> text]]]

submitBtnBranchFileFirst(text, file) ==
    IF file # NoFile THEN "file" ELSE IF text # <<>> THEN "text" ELSE "none"

\* part_000: which branch of if (emailText) / else if (emailFile) / else runs
submitBtnBranch(text, file) ==
    IF text # <<>> THEN "text" ELSE IF file # NoFile THEN "file" ELSE "none"

\* part_000: the arguments of the first fetch call
submitBtnTextRequest(text, base) ==
    [url |-> base \o "/process", method |-> "POST", contentType |-> "application/json",
     credentials |-> "same-origin", body |-> [json |-> [text |-> text]]]

\* part_000: the arguments of the second fetch call
submitBtnFileRequest(file, base) ==
    [url |-> base \o "/process-file", method |-> "POST",
     contentType |-> "multipart/form-data", credentials |-> "same-origin",
     body |-> [form |-> [file |-> file]]]

PreprocessedTextRaw(fields) ==
    IF "preprocessed" \in DOMAIN fields THEN fields.preprocessed ELSE "undefined"

\* script.js: data.preprocessed || ""
PreprocessedText(fields) ==
    IF "preprocessed" \in DOMAIN fields THEN fields.preprocessed ELSE ""

\* the errors a handler can catch
FetchError == [name |-> "TypeError", message |-> <<"Failed to fetch">>]

SyntaxError == [name |-> "SyntaxError", message |-> <<"Unexpected token">>]

NullError == [name |-> "TypeError", message |-> <<"Cannot read properties of null">>]

StatusString(status) == IF status = 200 THEN "200" ELSE "500"

\* script.js: new Error(`Erro do servidor: ${status} ${statusText}`)
ServerError(status) ==
    [name |-> "Error", message |-> <<"Erro do servidor: ", StatusString(status)>>]

\* part_000: new Error(errorData.error || "Erro desconhecido do backend.")
BackendError(fields) ==
    [name |-> "Error",
     message |-> IF "error" \in DOMAIN fields
                 THEN <<fields.error>>
                 ELSE <<"Erro desconhecido do backend.">>]

EmptyTextAlert == <<"Por favor, insira algum texto para processar.">>

EmptyInputAlert == <<"Por favor, insira o texto ou envie um arquivo.">>

\* script.js: "Erro ao processar o email: " + error.message
sendButtonErrorAlert(error) == <<"Erro ao processar o email: ">> \o error.message

\* part_000: "Erro ao processar o email: " + error
submitBtnErrorAlert(error) ==
    <<"Erro ao processar o email: ", error.name, ": ">> \o error.message

\* console.error("Erro ao processar o email:", error)
ErrorLog(i, error) ==
    [by |-> i, level |-> "error",
     text |-> <<"Erro ao processar o email:", error.name>> \o error.message]

\* part_000: the console.log calls
InfoLog(i, text) == [by |-> i, level |-> "log", text |-> text]

----------------------------------------------------------------------------
Init ==
    /\ page \in Pages
    /\ hostname \in Hostnames
    /\ BACKEND_URL = IF page = "part_000" THEN LoadBackendURL(hostname) ELSE "undefined"
    /\ emailText = <<>>
    /\ emailFile = NoFile
    /\ category = ""
    /\ response = ""
    /\ preprocessed = ""
    /\ pc = [i \in Invocations |-> "idle"]
    /\ clicks = 0
    /\ inflight = {}
    /\ sent = 0
    /\ alerts = <<>>
    /\ console = IF page = "part_000"
                 THEN << InfoLog(0, <<"backend:", LoadBackendURL(hostname)>>) >>
                 ELSE <<>>
    /\ delivered = <<>>

----------------------------------------------------------------------------
\* The user edits the page's inputs between clicks (an edit after the last
\* click of a behaviour is read by no handler and is left out).

TypeText ==
    /\ clicks < MaxClicks
    /\ \E t \in Texts : emailText' = t
    /\ emailText' # emailText
    /\ UNCHANGED <<page, hostname, BACKEND_URL, emailFile, category, response,
                   preprocessed, pc, clicks, inflight, sent, alerts, console, delivered>>

SelectFile ==
    /\ page = "part_000"
    /\ clicks < MaxClicks
    /\ \E f \in Files \cup {NoFile} : emailFile' = f
    /\ emailFile' # emailFile
    /\ UNCHANGED <<page, hostname, BACKEND_URL, emailText, category, response,
                   preprocessed, pc, clicks, inflight, sent, alerts, console, delivered>>

----------------------------------------------------------------------------
\* Building blocks of the handlers.

DispatchTwice(i, req) ==
    /\ inflight' = inflight \cup {[by |-> i, seq |-> sent + 1, req |-> req],
                                  [by |-> i, seq |-> sent + 2, req |-> req]}
    /\ sent' = sent + 2
    /\ pc' = [pc EXCEPT ![i] = "awaitFetch"]

\* response = await fetch(...): the request leaves, the invocation suspends
Dispatch(i, req) ==
    /\ inflight' = inflight \cup {[by |-> i, seq |-> sent + 1, req |-> req]}
    /\ sent' = sent + 1
    /\ pc' = [pc EXCEPT ![i] = "awaitFetch"]

\* alert(...); return;  on empty input
Refuse(i, text) ==
    /\ alerts' = Append(alerts, [by |-> i, kind |-> "empty", text |-> text])
    /\ pc' = [pc EXCEPT ![i] = "done"]
    /\ UNCHANGED <<inflight, sent, console, category, response, preprocessed>>

sendButtonCatchClears(i, error) ==
    /\ console' = Append(console, ErrorLog(i, error))
    /\ alerts' = Append(alerts, [by |-> i, kind |-> "error",
                                 text |-> sendButtonErrorAlert(error)])
    /\ pc' = [pc EXCEPT ![i] = "done"]
    /\ category' = ""
    /\ response' = ""
    /\ preprocessed' = ""
    /\ UNCHANGED sent

sendButtonCatchSilent(i, error) ==
    /\ console' = Append(console, ErrorLog(i, error))
    /\ pc' = [pc EXCEPT ![i] = "done"]
    /\ UNCHANGED <<alerts, category, response, preprocessed, sent>>

\* script.js: the catch block
sendButtonCatch(i, error) ==
    /\ console' = Append(console, ErrorLog(i, error))
    /\ alerts' = Append(alerts, [by |-> i, kind |-> "error",
                                 text |-> sendButtonErrorAlert(error)])
    /\ pc' = [pc EXCEPT ![i] = "done"]
    /\ UNCHANGED <<category, response, preprocessed, sent>>

submitBtnCatchResends(i, error) ==
    /\ console' = Append(console, ErrorLog(i, error))
    /\ alerts' = Append(alerts, [by |-> i, kind |-> "error",
                                 text |-> submitBtnErrorAlert(error)])
    /\ pc' = [pc EXCEPT ![i] = "done"]
    /\ sent' = sent + 1
    /\ UNCHANGED <<category, response, preprocessed>>

\* part_000: the catch block
submitBtnCatch(i, error) ==
    /\ console' = Append(console, ErrorLog(i, error))
    /\ alerts' = Append(alerts, [by |-> i, kind |-> "error",
                                 text |-> submitBtnErrorAlert(error)])
    /\ pc' = [pc EXCEPT ![i] = "done"]
    /\ UNCHANGED <<category, response, preprocessed, sent>>

sendButtonRenderCategoryOnly(i, fields) ==
    /\ category' = fields.category
    /\ pc' = [pc EXCEPT ![i] = "done"]
    /\ UNCHANGED <<response, preprocessed, alerts, console, sent>>

\* script.js: the three innerText assignments, then the handler returns
sendButtonRender(i, fields) ==
    /\ category' = fields.category
    /\ response' = fields.suggested_response
    /\ preprocessed' = PreprocessedText(fields)
    /\ pc' = [pc EXCEPT ![i] = "done"]
    /\ UNCHANGED <<alerts, console, sent>>

submitBtnRenderIfLatest(i, fields) ==
    /\ IF i = clicks
       THEN category' = fields.category /\ response' = fields.suggested_response
       ELSE UNCHANGED <<category, response>>
    /\ pc' = [pc EXCEPT ![i] = "done"]
    /\ UNCHANGED <<preprocessed, alerts, console, sent>>

\* part_000: the two innerText assignments, then the handler returns
submitBtnRender(i, fields) ==
    /\ category' = fields.category
    /\ response' = fields.suggested_response
    /\ pc' = [pc EXCEPT ![i] = "done"]
    /\ UNCHANGED <<preprocessed, alerts, console, sent>>

----------------------------------------------------------------------------
\* src/frontend/script.js

\* a click: the handler runs up to `await fetch(...)` or returns on empty input
sendButtonClick ==
    /\ page = "script.js"
    /\ clicks < MaxClicks
    /\ clicks' = clicks + 1
    /\ LET i == clicks + 1
           text == sendButtonText(emailText)
       IN  IF text = <<>>
           THEN Refuse(i, EmptyTextAlert)
           ELSE /\ Dispatch(i, sendButtonRequest(text, hostname))
                /\ UNCHANGED <<alerts, console, category, response, preprocessed>>
    /\ UNCHANGED <<page, hostname, BACKEND_URL, emailText, emailFile, delivered>>

\* the fetch promise settles: rejected, or resolved with a status
sendButtonFetchSettled(i) ==
    /\ page = "script.js"
    /\ pc[i] = "awaitFetch"
    /\ \E r \in inflight :
         /\ r.by = i
         /\ inflight' = inflight \ {r}
    /\ \/ sendButtonCatch(i, FetchError)
       \/ \E status \in Statuses :
            IF ~Ok(status)
            THEN sendButtonCatch(i, ServerError(status))
            ELSE /\ pc' = [pc EXCEPT ![i] = "awaitJson"]
                 /\ UNCHANGED <<alerts, console, category, response, preprocessed, sent>>
    /\ UNCHANGED <<page, hostname, BACKEND_URL, emailText, emailFile, clicks, delivered>>

\* response.json() settles: the body is read and the results are shown
sendButtonJsonSettled(i) ==
    /\ page = "script.js"
    /\ pc[i] = "awaitJson"
    /\ \E b \in ResultBodies :
         /\ delivered' = Append(delivered, [by |-> i, body |-> b])
         /\ CASE b.kind = "invalid" -> sendButtonCatch(i, SyntaxError)
              [] b.kind = "null" -> sendButtonCatch(i, NullError)
              [] OTHER -> sendButtonRender(i, b.fields)
    /\ UNCHANGED <<page, hostname, BACKEND_URL, emailText, emailFile, clicks, inflight>>

----------------------------------------------------------------------------
\* src/unnamed/part_000

\* a click: the handler runs up to one of the two `await fetch(...)` or returns
submitBtnClick ==
    /\ page = "part_000"
    /\ clicks < MaxClicks
    /\ clicks' = clicks + 1
    /\ LET i == clicks + 1
           branch == submitBtnBranch(emailText, emailFile)
       IN  CASE branch = "text" ->
                  /\ console' = Append(console,
                         InfoLog(i, <<"Enviando texto para:", BACKEND_URL \o "/process">>))
                  /\ Dispatch(i, submitBtnTextRequest(emailText, BACKEND_URL))
                  /\ UNCHANGED <<alerts, category, response, preprocessed>>
             [] branch = "file" ->
                  /\ console' = Append(console,
                         InfoLog(i, <<"Enviando arquivo para:",
                                      BACKEND_URL \o "/process-file">>))
                  /\ Dispatch(i, submitBtnFileRequest(emailFile, BACKEND_URL))
                  /\ UNCHANGED <<alerts, category, response, preprocessed>>
             [] OTHER -> Refuse(i, EmptyInputAlert)
    /\ UNCHANGED <<page, hostname, BACKEND_URL, emailText, emailFile, delivered>>

\* the fetch promise settles: rejected, or resolved with a status
submitBtnFetchSettled(i) ==
    /\ page = "part_000"
    /\ pc[i] = "awaitFetch"
    /\ \E r \in inflight :
         /\ r.by = i
         /\ inflight' = inflight \ {r}
    /\ \/ submitBtnCatch(i, FetchError)
       \/ \E status \in Statuses :
            /\ pc' = [pc EXCEPT ![i] = IF Ok(status) THEN "awaitJson" ELSE "awaitErrorJson"]
            /\ UNCHANGED <<alerts, console, category, response, preprocessed, sent>>
    /\ UNCHANGED <<page, hostname, BACKEND_URL, emailText, emailFile, clicks, delivered>>

\* the response.json() of a non-OK response settles: the handler throws
submitBtnErrorJsonSettled(i) ==
    /\ page = "part_000"
    /\ pc[i] = "awaitErrorJson"
    /\ \E b \in ErrorBodies :
         CASE b.kind = "invalid" -> submitBtnCatch(i, SyntaxError)
           [] OTHER -> submitBtnCatch(i, BackendError(b.fields))
    /\ UNCHANGED <<page, hostname, BACKEND_URL, emailText, emailFile, clicks, inflight,
                   delivered>>

\* the response.json() of an OK response settles: the results are shown
submitBtnJsonSettled(i) ==
    /\ page = "part_000"
    /\ pc[i] = "awaitJson"
    /\ \E b \in ResultBodies :
         /\ delivered' = Append(delivered, [by |-> i, body |-> b])
         /\ CASE b.kind = "invalid" -> submitBtnCatch(i, SyntaxError)
              [] b.kind = "null" -> submitBtnCatch(i, NullError)
              [] OTHER -> submitBtnRender(i, b.fields)
    /\ UNCHANGED <<page, hostname, BACKEND_URL, emailText, emailFile, clicks, inflight>>

----------------------------------------------------------------------------
Settle ==
    \E i \in Invocations :
        \/ sendButtonFetchSettled(i)
        \/ sendButtonJsonSettled(i)
        \/ submitBtnFetchSettled(i)
        \/ submitBtnErrorJsonSettled(i)
        \/ submitBtnJsonSettled(i)

Next ==
    \/ TypeText
    \/ SelectFile
    \/ sendButtonClick
    \/ submitBtnClick
    \/ \E i \in Invocations : sendButtonFetchSettled(i)
    \/ \E i \in Invocations : sendButtonJsonSettled(i)
    \/ \E i \in Invocations : submitBtnFetchSettled(i)
    \/ \E i \in Invocations : submitBtnErrorJsonSettled(i)
    \/ \E i \in Invocations : submitBtnJsonSettled(i)

Spec == Init /\ [][Next]_vars

\* A promise that can settle does settle: the network answers or fails, and a
\* body is read or fails to parse.
FairSpec == Spec /\ WF_vars(Settle)

----------------------------------------------------------------------------
\* Vocabulary of the properties.

Last(seq) == seq[Len(seq)]

\* the input a click finds is empty, as each script understands it
EmptyInput ==
    IF page = "script.js"
    THEN Trim(emailText) = <<>>
    ELSE emailText = <<>> /\ emailFile = NoFile

ClickStep == clicks' = clicks + 1

OneAlertAdded(kind) ==
    /\ Len(alerts') = Len(alerts) + 1
    /\ SubSeq(alerts', 1, Len(alerts)) = alerts
    /\ Last(alerts').kind = kind

OneErrorLogged ==
    /\ Len(console') = Len(console) + 1
    /\ SubSeq(console', 1, Len(console)) = console
    /\ Last(console').level = "error"

\* the step reads the body of an OK response, and the body is a JSON object
ResultArrives ==
    /\ Len(delivered') = Len(delivered) + 1
    /\ Last(delivered').body.kind = "object"

\* an invocation's request fails in this step: the fetch is rejected, the
\* status is not OK and the handler throws, or the body cannot be used
FailStep ==
    \E i \in Invocations :
        /\ pc[i] \in {"awaitFetch", "awaitJson", "awaitErrorJson"}
        /\ pc'[i] = "done"
        /\ ~ResultArrives

\* the display elements show the fields of one response body
Shows(f) ==
    /\ category = f.category
    /\ response = f.suggested_response
    /\ preprocessed = IF page = "script.js" /\ "preprocessed" \in DOMAIN f
                      THEN f.preprocessed
                      ELSE ""

Results == {k \in DOMAIN delivered : delivered[k].body.kind = "object"}

AlertsBy(i, kind) == {k \in DOMAIN alerts : alerts[k].by = i /\ alerts[k].kind = kind}

AllSucceeded ==
    /\ clicks >= 1
    /\ \A i \in 1..clicks : pc[i] = "done" /\ \E k \in Results : delivered[k].by = i

----------------------------------------------------------------------------
\* C1: a click that finds empty input (script.js: empty after trimming;
\* part_000: empty text and no file) sends no request, shows the
\* 'please insert' alert and leaves the three display elements unchanged.
C1_EmptyClickOnlyAlerts ==
    [][ (ClickStep /\ EmptyInput) =>
            /\ sent' = sent
            /\ inflight' = inflight
            /\ OneAlertAdded("empty")
            /\ Last(alerts').text = IF page = "script.js"
                                    THEN EmptyTextAlert ELSE EmptyInputAlert
            /\ display' = display ]_vars

C1_Witness ==
    /\ page = "script.js"
    /\ emailText = <<" ">>
    /\ alerts # <<>>
    /\ Last(alerts).kind = "empty"
    /\ category # ""
    /\ sent = 1

\* C2: in part_000 a click with some input issues exactly one request: the
\* text as typed, as JSON, to <base>/process when the text is non-empty
\* (a selected file is then not sent), else the file, as multipart field
\* 'file', to <base>/process-file.
C2_OneRequestTextFirst ==
    [][ (page = "part_000" /\ ClickStep /\ ~EmptyInput) =>
            /\ sent' = sent + 1
            /\ \E r \in inflight' :
                 /\ r \notin inflight
                 /\ inflight' = inflight \cup {r}
                 /\ r.req.method = "POST"
                 /\ IF emailText # <<>>
                    THEN /\ r.req.url = BACKEND_URL \o "/process"
                         /\ r.req.body = [json |-> [text |-> emailText]]
                    ELSE /\ r.req.url = BACKEND_URL \o "/process-file"
                         /\ r.req.body = [form |-> [file |-> emailFile]] ]_vars

C2_Witness ==
    /\ page = "part_000"
    /\ emailFile # NoFile
    /\ emailText = <<" ">>
    /\ \E r \in inflight : r.req.body = [json |-> [text |-> <<" ">>]]
    /\ \E r \in inflight : r.req.body = [form |-> [file |-> emailFile]]

C5_SingleInFlight == Cardinality(inflight) <= 1

\* C5 amended: every click has at most one request in flight, exactly while
\* its handler awaits the fetch; the page has as many in flight as there
\* are such clicks, which can be more than one.
C5_OneInFlightPerClick ==
    /\ \A i \in Invocations :
         Cardinality({r \in inflight : r.by = i}) = IF pc[i] = "awaitFetch" THEN 1 ELSE 0
    /\ \A r \in inflight : r.by \in 1..clicks

C5_Witness ==
    /\ Cardinality(inflight) = 2
    /\ \A i \in 1..2 : pc[i] = "awaitFetch"

\* C6: no retry and no queue: the number of requests grows only in a click
\* that finds input, and then by one; so it never exceeds the number of
\* clicks made with input.
C6_NoRetry ==
    /\ [](sent + Cardinality({k \in DOMAIN alerts : alerts[k].kind = "empty"}) <= clicks)
    /\ [][ \/ sent' = sent
           \/ sent' = sent + 1 /\ ClickStep /\ ~EmptyInput ]_vars

C6_Witness ==
    /\ page = "part_000"
    /\ clicks = 2
    /\ sent = 1
    /\ inflight = {}
    /\ \E k \in DOMAIN alerts : alerts[k].kind = "error"
    /\ \E k \in DOMAIN alerts : alerts[k].kind = "empty"
    /\ \A i \in 1..2 : pc[i] = "done"

LocalURLs == {"http://127.0.0.1:5000/process", "http://127.0.0.1:5000/process-file"}

HostedURLs ==
    {"https://email-classificacao.onrender.com/process",
     "https://classificador-de-email.onrender.com/process",
     "https://classificador-de-email.onrender.com/process-file"}

\* C7: a request goes to the local backend exactly when the hostname is
\* '127.0.0.1' or 'localhost', and to the hosted backend otherwise; the
\* hostname and part_000's base URL never change.
C7_LocalIffLocalHostname ==
    /\ [](\A r \in inflight :
            /\ r.req.url \in LocalURLs \cup HostedURLs
            /\ r.req.url \in LocalURLs <=> hostname \in {"127.0.0.1", "localhost"})
    /\ [][hostname' = hostname /\ BACKEND_URL' = BACKEND_URL]_vars

C7_Witness ==
    /\ hostname = "127.0.0.1"
    /\ \E r \in inflight : r.req.url = "http://127.0.0.1:5000/process"
    /\ \E r \in inflight : r.req.url = "http://127.0.0.1:5000/process-file"

\* the three ways a click ends
EndsRefused(i) ==
    /\ OneAlertAdded("empty")
    /\ Last(alerts').by = i
    /\ sent' = sent
    /\ display' = display
    /\ delivered' = delivered

EndsRendered(i) ==
    /\ alerts' = alerts
    /\ ResultArrives
    /\ Last(delivered').by = i
    /\ LET f == Last(delivered').body.fields
       IN  category' = f.category /\ response' = f.suggested_response

EndsFailed(i) ==
    /\ OneAlertAdded("error")
    /\ Last(alerts').by = i
    /\ display' = display
    /\ ~ResultArrives

\* C8: every click ends in exactly one of: the empty-input alert and no
\* request; the results rendered and no alert; an error alert and nothing
\* rendered.  A click that has ended shows at most one alert, and none if
\* it rendered.  If every pending promise settles, every click ends.
C8_OneOutcome ==
    /\ [][ \A i \in Invocations :
             (pc[i] # "done" /\ pc'[i] = "done") =>
                 \/ EndsRefused(i) /\ ~EndsRendered(i) /\ ~EndsFailed(i)
                 \/ ~EndsRefused(i) /\ EndsRendered(i) /\ ~EndsFailed(i)
                 \/ ~EndsRefused(i) /\ ~EndsRendered(i) /\ EndsFailed(i) ]_vars
    /\ [](\A i \in Invocations :
            pc[i] = "done" =>
                Cardinality(AlertsBy(i, "empty")) + Cardinality(AlertsBy(i, "error"))
                  + Cardinality({k \in Results : delivered[k].by = i}) = 1)
    /\ \A i \in Invocations : (pc[i] # "idle") ~> (pc[i] = "done")

C8_Witness ==
    /\ page = "script.js"
    /\ \A i \in 1..2 : pc[i] = "done"
    /\ AlertsBy(1, "error") # {}
    /\ \E k \in Results : delivered[k].by = 2
    /\ Len(alerts) = 1

\* C9: in every state the display elements are all empty, as at load, or
\* all show the fields of one and the same response body.
C9_DisplayFromOneResponse ==
    \/ display = <<"", "", "">>
    \/ \E k \in Results : Shows(delivered[k].body.fields)

C9_Witness ==
    /\ page = "script.js"
    /\ Len(delivered) = 2
    /\ delivered[1].body = ResultNoPre
    /\ delivered[2].body = ResultWithPre
    /\ delivered[1].by = 2
    /\ Shows(ResultWithPre.fields)

\* C10 as stated: once all clicks have ended with a result, the display
\* shows the result of the latest click.
C10_LatestClickShown ==
    AllSucceeded =>
        \E k \in Results : delivered[k].by = clicks /\ Shows(delivered[k].body.fields)

\* C10 amended: once all clicks have ended with a result, the display shows
\* the result that arrived last, whichever click it answers.
C10_LastArrivalShown ==
    AllSucceeded => Shows(Last(delivered).body.fields)

C10_Witness ==
    /\ AllSucceeded
    /\ clicks = 2
    /\ Last(delivered).by = 1
    /\ delivered[1].body # delivered[2].body

====
